---- MODULE Spec2Model ----
(***************************************************************************)
(* State-machine model of the RAG orchestration pipeline of               *)
(* mcp-web-search: handle_mcp_async (app/mcp.py) with its collaborators   *)
(* search_duckduckgo, scrape_async and generate_answer, and the chunking  *)
(* loop chunk_text (app/rag.py).                                           *)
(*                                                                         *)
(* One request is followed from the call of handle_mcp_async to its       *)
(* return or raise.  Python strings are TLA+ strings, lists are           *)
(* sequences, dicts are functions on their key set, and an optional value *)
(* (None / a value) is the empty or the one-element sequence.  Every      *)
(* await of the handler is a point where the environment (search engine,  *)
(* web servers, LLM provider) chooses an outcome.                          *)
(***************************************************************************)
EXTENDS Integers, Sequences, FiniteSets, TLC

VARIABLES
    request,          \* the dict passed to handle_mcp_async
    GEMINI_API_KEY,   \* app.config.config.GEMINI_API_KEY ("" = unset/empty)
    MISTRAL_API_KEY,  \* app.config.config.MISTRAL_API_KEY ("" = unset/empty)
    pc,               \* position of the handler coroutine
    query,            \* handle_mcp_async: query
    provider,         \* handle_mcp_async: provider (local of the handler)
    links,            \* handle_mcp_async: links
    tasks,            \* the scrape_async coroutines given to asyncio.gather
    contents,         \* handle_mcp_async: contents
    prompt,           \* generate_answer: prompt
    ga_provider,      \* generate_answer: provider (its own local parameter)
    api_calls,        \* completion calls issued: <<[prompt, provider]>>
    search_calls,     \* queries passed to search_duckduckgo
    search_error,     \* <<e>> once search_duckduckgo has logged and swallowed e
    first_done,       \* index of the scrape_async coroutine that finished first (0: none)
    response,         \* <<dict>> once the handler has returned, else <<>>
    raised,           \* <<HTTPException>> once the handler has raised, else <<>>
    ck_pc, ck_text, ck_size, ck_overlap, ck_start, ck_chunks, ck_iters,
                      \* chunk_text: position, arguments, locals, loop count
    sc_pc,            \* scrape_async followed on its own: position
    sc_page,          \* the parsed document (soup): its elements in document order
    sc_tag,           \* the selector whose matches gave main_content ("" if none)
    sc_main,          \* scrape_async: main_content
    sc_fellback,      \* the whole-page branch was taken
    sc_error,         \* <<e>> once the except clause has caught e
    sc_value,         \* <<v>> once scrape_async has returned v
    pd_pc,            \* process_documents: position
    pd_content,       \* process_documents: content
    pd_i,             \* index in content of the text the for loop is at
    pd_processed,     \* process_documents: processed
    pd_chunked,       \* the texts passed to chunk_text so far
    pd_summarized,    \* the chunks passed to summarize_content so far
    pd_result,        \* <<s>> once process_documents has returned s
    sm_pc,            \* summarize_content called on its own: position
    sm_text,          \* summarize_content: text
    sm_calls,         \* the calls of call_mistral_api it has made
    sm_caught,        \* <<e>> once its except clause has caught e
    sm_result         \* <<s>> once summarize_content has returned s

hvars == <<request, GEMINI_API_KEY, MISTRAL_API_KEY, pc, query, provider, links,
           tasks, contents, prompt, ga_provider, api_calls, search_calls,
           search_error, first_done, response, raised>>
ckvars == <<ck_pc, ck_text, ck_size, ck_overlap, ck_start, ck_chunks, ck_iters>>
scvars == <<sc_pc, sc_page, sc_tag, sc_main, sc_fellback, sc_error, sc_value>>
pdvars == <<pd_pc, pd_content, pd_i, pd_processed, pd_chunked, pd_summarized,
            pd_result, sm_pc, sm_text, sm_calls, sm_caught, sm_result>>
vars == <<hvars, ckvars, scvars, pdvars>>

-----------------------------------------------------------------------------
(* Bounds of the model *)

\* longest list of links the search returns in the model (the code asks the
\* engine for max_results=10; anything above the fan-out width is enough)
MaxLinks == 6
\* longest text handed to chunk_text
MaxTextLen == 4
\* largest chunk_size handed to chunk_text
MaxChunk == 3
\* number of loop iterations of chunk_text after which the model stops following it
MaxIters == 8
\* largest number of elements of a fetched document
MaxElems == 3
\* longest list of documents handed to process_documents
MaxDocs == 2

(* Program constants *)

\* links[:5] in handle_mcp_async
FanOut == 5
\* main_content[:1500] in scrape_async
MaxContent == 1500
\* the defaults of chunk_text: chunk_size = 1000, overlap = 100
DefaultChunkSize == 1000
DefaultOverlap == 100
\* text[:500] in summarize_content
SummaryFallbackLen == 500
\* max_tokens=500 in summarize_content
SummaryMaxTokens == 500

-----------------------------------------------------------------------------
(* Python helpers *)

Min(a, b) == IF a <= b THEN a ELSE b
Max(a, b) == IF a >= b THEN a ELSE b

\* s[:n] for n >= 0, on strings and on lists
Prefix(s, n) == SubSeq(s, 1, Min(n, Len(s)))

\* s[i:j] with Python's treatment of negative and out-of-range indices
PyIndex(i, n) == IF i < 0 THEN Max(i + n, 0) ELSE Min(i, n)
PySlice(s, i, j) == SubSeq(s, PyIndex(i, Len(s)) + 1, PyIndex(j, Len(s)))

\* s.startswith(p)
StartsWith(s, p) == Len(s) >= Len(p) /\ SubSeq(s, 1, Len(p)) = p

\* sep.join(list)
RECURSIVE Join(_, _)
Join(sep, list) ==
    IF list = <<>> THEN ""
    ELSE IF Len(list) = 1 THEN list[1]
    ELSE list[1] \o sep \o Join(sep, Tail(list))

\* str.lower() on the provider identifiers a request carries in the model
Lower(s) ==
    CASE s = "Mistral" -> "mistral"
      [] s = "GEMINI" -> "gemini"
      [] OTHER -> s

\* truthiness of a configured key: None and "" are both false
HasKey(k) == k # ""


-----------------------------------------------------------------------------
(* Inputs and environment outcomes *)

\* values of request['content']
QueryTexts == {"", "capital of France"}

\* values of request['provider']
ProviderNames == {"gemini", "Mistral", "openai"}

\* a dict with any subset of the two keys the handler reads
Requests ==
    { r \in UNION { [D -> QueryTexts \cup ProviderNames] :
                        D \in SUBSET {"content", "provider"} } :
        /\ ("content" \in DOMAIN r => r["content"] \in QueryTexts)
        /\ ("provider" \in DOMAIN r => r["provider"] \in ProviderNames) }

\* configured values of an API key: unset/empty, or set
KeyValues == {"", "sk-key"}

URLs == {"https://a.example", "https://b.example"}

\* the list of n links that alternates over the two URLs
Alternating(n) ==
    [i \in 1..n |-> IF i % 2 = 1 THEN "https://a.example" ELSE "https://b.example"]

\* lists of hrefs the engine returns: every list of at most two URLs
\* (duplicates and both orders included) and longer alternating lists
SearchResults ==
    UNION { [1..n -> URLs] : n \in 0..2 } \cup { Alternating(n) : n \in 3..MaxLinks }

\* str(e) of the exception the engine raises (network, rate limit)
SearchFailures == {"202 Ratelimit"}

\* main content a page yields once fetched and parsed (possibly nothing)
MainContents(url) == {"Paris is the capital of France. -- " \o url, ""}

\* str(e) of the exception a fetch or parse raises
ScrapeErrors == {"timed out"}

\* a dict without keys
EmptyDict == [k \in {} |-> ""]

\* texts a provider generates
GeneratedTexts == {"Paris.", ""}

\* response.json() of the Gemini endpoint: a candidate with a text part, and
\* the shapes that lack one
GeminiResults ==
    { [candidates |-> <<[content |-> [parts |-> <<[text |-> t]>>]]>>] :
          t \in GeneratedTexts }
        \cup { EmptyDict,
               [candidates |-> <<>>],
               [candidates |-> <<[finishReason |-> "SAFETY"]>>],
               [candidates |-> <<[content |-> [role |-> "model"]]>>],
               [candidates |-> <<[content |-> [parts |-> <<>>]]>>],
               [candidates |-> <<[content |-> [parts |-> <<[inlineData |-> "..."]>>]]>>] }

\* chat_response of the Mistral client, reduced to choices[0].message.content
MistralResults == { [content |-> t] : t \in GeneratedTexts }

\* str(e) of what goes wrong inside a provider call (network, quota, status)
ApiFailures == {"429 Too Many Requests"}

-----------------------------------------------------------------------------
(* handle_mcp_async and its collaborators *)

\* the provider identifiers the handler accepts
AVAILABLE_PROVIDERS == {"gemini", "mistral"}

\* variant of MissingContent: the test `not request.get('content')`, which
\* also rejects an empty content
MissingContentOrEmpty(req) ==
    IF "content" \in DOMAIN req THEN req["content"] = "" ELSE TRUE

\* 'content' not in request
MissingContent(req) == "content" \notin DOMAIN req

\* str(HTTPException(status_code, detail))
StatusText(status_code) ==
    CASE status_code = 400 -> "400"
      [] status_code = 500 -> "500"
HTTPExceptionStr(e) == StatusText(e.status_code) \o ": " \o e.detail

\* the exception the validation raises
ValidationError == [status_code |-> 400, detail |-> "Missing content in MCP request"]

\* the outer except clause: any exception e leaves the handler as this one
OuterExcept(e) == [status_code |-> 500, detail |-> HTTPExceptionStr(e)]

\* variant of RequestedProvider: an unsupported identifier is kept
RequestedProviderNoDefault(req) ==
    Lower(IF "provider" \in DOMAIN req THEN req["provider"] ELSE "gemini")

\* variant of RequestedProvider: the identifier is compared as it was sent
RequestedProviderNoLower(req) ==
    LET p == IF "provider" \in DOMAIN req THEN req["provider"] ELSE "gemini"
    IN  IF p \notin AVAILABLE_PROVIDERS THEN "gemini" ELSE p

\* request.get('provider', 'gemini').lower(), then the default for an
\* identifier that is not supported
RequestedProvider(req) ==
    LET p == Lower(IF "provider" \in DOMAIN req THEN req["provider"] ELSE "gemini")
    IN  IF p \notin AVAILABLE_PROVIDERS THEN "gemini" ELSE p

\* variant of FirstLinks: the slice is forgotten
AllLinks(l) == l

\* links[:5]
FirstLinks(l) == Prefix(l, FanOut)

\* variant of Sources: only the links whose fetch did not end in the sentinel
SourcesOfFetched(l) ==
    LET ok == SelectSeq([i \in DOMAIN tasks |-> i],
                        LAMBDA i : ~StartsWith(tasks[i].value, "[Scraping Error]"))
    IN  [k \in 1..Len(ok) |-> l[ok[k]]]

\* "sources": links[:5] if links else []
Sources(l) == IF l # <<>> THEN FirstLinks(l) ELSE <<>>

\* variant of ScrapeValue: the cap on the length is forgotten
ScrapeValueUntruncated(main_content) == main_content

\* the value a scrape_async coroutine returns when the fetch and parse succeed
ScrapeValue(main_content) == Prefix(main_content, MaxContent)

\* the value a scrape_async coroutine returns when anything in it raises
ScrapeErrorValue(e) == "[Scraping Error] " \o e

\* generate_answer: context and prompt
Context(texts) == Join("\n\n", texts)
Prompt(question, texts) ==
    "Answer the question: " \o question
        \o "\n\nHere is the information found:\n" \o Context(texts)

\* variant of ResolveProvider: no fallback, the requested provider is kept
ResolveProviderNoFallback(p) == p

\* generate_answer: the fallback to the other provider when the key is missing
ResolveProvider(p) ==
    IF p = "gemini" /\ ~HasKey(GEMINI_API_KEY) THEN "mistral"
    ELSE IF p = "mistral" /\ ~HasKey(MISTRAL_API_KEY) THEN "gemini"
    ELSE p

\* generate_answer: the test that the resolved provider has no key either
NoValidKey(p) ==
    \/ p = "gemini" /\ ~HasKey(GEMINI_API_KEY)
    \/ p = "mistral" /\ ~HasKey(MISTRAL_API_KEY)

NoKeysAnswer == "Unable to generate response: No valid API keys found for any provider."

\* call_gemini_api: the text extracted from the endpoint's JSON result
call_gemini_api(result) ==
    IF /\ "candidates" \in DOMAIN result
       /\ Len(result["candidates"]) > 0
       /\ "content" \in DOMAIN result["candidates"][1]
       /\ "parts" \in DOMAIN result["candidates"][1]["content"]
       /\ result["candidates"][1]["content"]["parts"] # <<>>
       /\ "text" \in DOMAIN result["candidates"][1]["content"]["parts"][1]
    THEN result["candidates"][1]["content"]["parts"][1]["text"]
    ELSE "No response generated from Gemini API"

\* call_gemini_api: the exception that replaces any other one raised in it
GeminiError(e) == [status_code |-> 500, detail |-> "Gemini API error: " \o e]

\* call_mistral_api: the text of the first choice
call_mistral_api(chat_response) == chat_response["content"]

\* call_mistral_api: the exception that replaces any other one raised in it
MistralError(e) == [status_code |-> 500, detail |-> e]

\* call_ai_api(prompt, provider): the completion call, routed to the provider
\* it is given
call_ai_api(a_prompt, p) == [prompt |-> a_prompt, provider |-> p]

\* the results the provider of a call can produce
ProviderResults(p) == IF p = "gemini" THEN GeminiResults ELSE MistralResults

\* the text call_ai_api returns for a result of provider p
CompletionText(p, result) ==
    IF p = "gemini" THEN call_gemini_api(result) ELSE call_mistral_api(result)

\* the exception call_ai_api raises when the call to provider p fails with e
CompletionError(p, e) == IF p = "gemini" THEN GeminiError(e) ELSE MistralError(e)

\* generate_answer: the except clause around the completion call
CompletionErrorAnswer(e) ==
    "I found some information but couldn't generate a response. Error: " \o e

\* variant of NotFoundAnswer: the query is left out of the message
NotFoundAnswerNoQuery(q) == "I couldn't find relevant information."

\* the answer when there are no contents
NotFoundAnswer(q) == "I couldn't find relevant information about '" \o q \o "'."

\* the dict the handler returns
Response(answer, l, p) ==
    [type |-> "response", content |-> answer, sources |-> Sources(l), provider |-> p]

-----------------------------------------------------------------------------
(* The request *)

ChunkIdle ==
    /\ ck_pc = "idle" /\ ck_text = "" /\ ck_size = 0 /\ ck_overlap = 0
    /\ ck_start = 0 /\ ck_chunks = <<>> /\ ck_iters = 0

ScrapeIdle ==
    /\ sc_pc = "idle" /\ sc_page = <<>> /\ sc_tag = "" /\ sc_main = ""
    /\ sc_fellback = FALSE /\ sc_error = <<>> /\ sc_value = <<>>

DocsIdle ==
    /\ pd_pc = "idle" /\ pd_content = <<>> /\ pd_i = 0 /\ pd_processed = <<>>
    /\ pd_chunked = <<>> /\ pd_summarized = <<>> /\ pd_result = <<>>
    /\ sm_pc = "idle" /\ sm_text = "" /\ sm_calls = <<>> /\ sm_caught = <<>>
    /\ sm_result = <<>>

HandlerLocalsInit ==
    /\ query = "" /\ provider = "" /\ links = <<>> /\ tasks = <<>>
    /\ contents = <<>> /\ prompt = "" /\ ga_provider = ""
    /\ api_calls = <<>> /\ search_calls = <<>>
    /\ search_error = <<>> /\ first_done = 0
    /\ response = <<>> /\ raised = <<>>

Init ==
    /\ request \in Requests
    /\ GEMINI_API_KEY \in KeyValues
    /\ MISTRAL_API_KEY \in KeyValues
    /\ pc = "start"
    /\ HandlerLocalsInit
    /\ ChunkIdle
    /\ ScrapeIdle
    /\ DocsIdle

\* the handler is entered with a request that has no 'content': the
\* HTTPException(400) raised in the outer try is caught by the outer except
\* clause, which raises HTTPException(500) in its place
handle_mcp_async_missing_content ==
    /\ pc = "start"
    /\ MissingContent(request)
    /\ raised' = <<OuterExcept(ValidationError)>>
    /\ pc' = "done"
    /\ UNCHANGED <<request, GEMINI_API_KEY, MISTRAL_API_KEY, search_error, first_done,
                   query, provider, links,
                   tasks, contents, prompt, ga_provider, api_calls, search_calls,
                   response>>
    /\ UNCHANGED <<ckvars, scvars, pdvars>>

\* the handler is entered with a request that has 'content': it reads the
\* query, settles the provider and awaits search_duckduckgo(query)
handle_mcp_async_begin ==
    /\ pc = "start"
    /\ ~MissingContent(request)
    /\ query' = request["content"]
    /\ provider' = RequestedProvider(request)
    /\ search_calls' = Append(search_calls, request["content"])
    /\ pc' = "search"
    /\ UNCHANGED <<request, GEMINI_API_KEY, MISTRAL_API_KEY, search_error, first_done,
                   links, tasks, contents,
                   prompt, ga_provider, api_calls, response, raised>>
    /\ UNCHANGED <<ckvars, scvars, pdvars>>

\* the handler resumes with the list l returned by search_duckduckgo: with
\* links it launches one scrape_async per link of links[:5] and awaits the
\* gather; without links contents is [] and it returns the not-found answer
AfterSearch(l, err) ==
    /\ links' = l
    /\ search_error' = err
    /\ IF l # <<>>
       THEN /\ tasks' = [i \in 1..Len(FirstLinks(l)) |->
                            [url |-> FirstLinks(l)[i], done |-> FALSE, value |-> ""]]
            /\ pc' = "gather"
            /\ UNCHANGED <<contents, response>>
       ELSE /\ contents' = <<>>
            /\ response' = <<Response(NotFoundAnswer(query), l, provider)>>
            /\ pc' = "done"
            /\ UNCHANGED tasks
    /\ UNCHANGED <<request, GEMINI_API_KEY, MISTRAL_API_KEY, first_done, query,
                   provider, prompt, ga_provider, api_calls, search_calls, raised>>
    /\ UNCHANGED <<ckvars, scvars, pdvars>>

\* search_duckduckgo returns the hrefs of the engine's results
search_duckduckgo_returns ==
    /\ pc = "search"
    /\ \E l \in SearchResults : AfterSearch(l, <<>>)

\* search_duckduckgo catches the engine's exception and returns []
search_duckduckgo_fails ==
    /\ pc = "search"
    /\ \E e \in SearchFailures : AfterSearch(<<>>, <<e>>)

\* the i-th scrape_async coroutine fetches, parses and returns main_content[:1500]
scrape_async_returns(i) ==
    /\ pc = "gather"
    /\ i \in DOMAIN tasks
    /\ ~tasks[i].done
    /\ \E main_content \in MainContents(tasks[i].url) :
           tasks' = [tasks EXCEPT ![i].done = TRUE,
                                  ![i].value = ScrapeValue(main_content)]
    /\ first_done' = (IF first_done = 0 THEN i ELSE first_done)
    /\ UNCHANGED <<request, GEMINI_API_KEY, MISTRAL_API_KEY, search_error, pc,
                   query, provider, links,
                   contents, prompt, ga_provider, api_calls, search_calls, response,
                   raised>>
    /\ UNCHANGED <<ckvars, scvars, pdvars>>

\* the i-th scrape_async coroutine catches an exception and returns the sentinel
scrape_async_fails(i) ==
    /\ pc = "gather"
    /\ i \in DOMAIN tasks
    /\ ~tasks[i].done
    /\ \E e \in ScrapeErrors :
           tasks' = [tasks EXCEPT ![i].done = TRUE, ![i].value = ScrapeErrorValue(e)]
    /\ first_done' = (IF first_done = 0 THEN i ELSE first_done)
    /\ UNCHANGED <<request, GEMINI_API_KEY, MISTRAL_API_KEY, search_error, pc,
                   query, provider, links,
                   contents, prompt, ga_provider, api_calls, search_calls, response,
                   raised>>
    /\ UNCHANGED <<ckvars, scvars, pdvars>>

\* variant of GatherReady: the await ends as soon as one coroutine has finished
GatherFirstCompleted(ts) == \E i \in DOMAIN ts : ts[i].done

\* variant of GatherReady: the await ends only when every coroutine has
\* returned an extracted text, and never when one returned the sentinel
GatherReadyAllSucceeded(ts) ==
    \A i \in DOMAIN ts : ts[i].done /\ ~StartsWith(ts[i].value, "[Scraping Error]")

\* await asyncio.gather(...): the await ends when every coroutine has returned
GatherReady(ts) == \A i \in DOMAIN ts : ts[i].done

\* variant of GatherResults: the value of the coroutine that finished first
\* comes first, the others follow in the order of the coroutines
GatherResultsFirstCompletedFirst(ts) ==
    LET order == IF first_done \in DOMAIN ts
                 THEN <<first_done>>
                          \o SelectSeq([i \in DOMAIN ts |-> i],
                                       LAMBDA i : i # first_done)
                 ELSE [i \in DOMAIN ts |-> i]
    IN  [k \in DOMAIN ts |-> ts[order[k]].value]

\* the list asyncio.gather returns: the values of the coroutines in the
\* order in which they were passed, whatever the order they finished in
GatherResults(ts) == [i \in DOMAIN ts |-> ts[i].value]

\* asyncio.gather returns the values in the order of the coroutines, and the
\* handler enters generate_answer (contents is not empty): the prompt is
\* built, the provider resolved, and either the no-keys answer is returned
\* or the completion call is issued and awaited
gather_returns ==
    /\ pc = "gather"
    /\ GatherReady(tasks)
    /\ LET texts == GatherResults(tasks)
           p == ResolveProvider(provider)
       IN  /\ contents' = texts
           /\ IF texts # <<>>
              THEN /\ prompt' = Prompt(query, texts)
                   /\ ga_provider' = p
                   /\ IF NoValidKey(p)
                      THEN /\ response' = <<Response(NoKeysAnswer, links, provider)>>
                           /\ pc' = "done"
                           /\ UNCHANGED api_calls
                      ELSE /\ api_calls' = Append(api_calls,
                                  call_ai_api(Prompt(query, texts), p))
                           /\ pc' = "complete"
                           /\ UNCHANGED response
              ELSE /\ response' = <<Response(NotFoundAnswer(query), links, provider)>>
                   /\ pc' = "done"
                   /\ UNCHANGED <<prompt, ga_provider, api_calls>>
    /\ UNCHANGED <<request, GEMINI_API_KEY, MISTRAL_API_KEY, search_error, first_done,
                   query, provider, links,
                   tasks, search_calls, raised>>
    /\ UNCHANGED <<ckvars, scvars, pdvars>>

\* the handler returns the response built around the answer of generate_answer
ReturnAnswer(answer) ==
    /\ response' = <<Response(answer, links, provider)>>
    /\ pc' = "done"
    /\ UNCHANGED <<request, GEMINI_API_KEY, MISTRAL_API_KEY, search_error, first_done,
                   query, provider, links,
                   tasks, contents, prompt, ga_provider, api_calls, search_calls,
                   raised>>
    /\ UNCHANGED <<ckvars, scvars, pdvars>>

\* the completion call returns a text, which generate_answer returns as it is
call_ai_api_returns ==
    /\ pc = "complete"
    /\ \E result \in ProviderResults(ga_provider) :
           ReturnAnswer(CompletionText(ga_provider, result))

\* the completion call raises an HTTPException, and generate_answer returns
\* its explanation
call_ai_api_fails ==
    /\ pc = "complete"
    /\ \E e \in ApiFailures :
           ReturnAnswer(CompletionErrorAnswer(
               HTTPExceptionStr(CompletionError(ga_provider, e))))

\* The inner except clause of the handler (mcp.py:50-57) has no action: the
\* search, every scrape and generate_answer catch Exception themselves, so
\* nothing raised inside the inner try reaches it.
Next ==
    \/ handle_mcp_async_missing_content
    \/ handle_mcp_async_begin
    \/ search_duckduckgo_returns
    \/ search_duckduckgo_fails
    \/ \E i \in 1..FanOut : scrape_async_returns(i)
    \/ \E i \in 1..FanOut : scrape_async_fails(i)
    \/ gather_returns
    \/ call_ai_api_returns
    \/ call_ai_api_fails

Spec == Init /\ [][Next]_vars

\* The event loop resumes a coroutine whose await has ended, the search and
\* the completion call each return or fail, and every fetch returns or runs
\* into its timeout (httpx.AsyncClient(timeout=5)).
Fairness ==
    /\ WF_vars(handle_mcp_async_missing_content)
    /\ WF_vars(handle_mcp_async_begin)
    /\ WF_vars(search_duckduckgo_returns \/ search_duckduckgo_fails)
    /\ \A i \in 1..FanOut : WF_vars(scrape_async_returns(i) \/ scrape_async_fails(i))
    /\ WF_vars(gather_returns)
    /\ WF_vars(call_ai_api_returns \/ call_ai_api_fails)

FairSpec == Spec /\ Fairness

-----------------------------------------------------------------------------
(* chunk_text *)

\* texts handed to chunk_text: the prefixes of the alphabet, so that every
\* position of a text holds a different character
Alphabet == "abcdefghijklmnopqrstuvwxyz"
Texts == { Prefix(Alphabet, n) : n \in 0..MaxTextLen }

HandlerIdle ==
    /\ request = [content |-> ""]
    /\ GEMINI_API_KEY = "" /\ MISTRAL_API_KEY = ""
    /\ pc = "idle"
    /\ HandlerLocalsInit

\* chunk_text(text, chunk_size, overlap) is entered: chunks = [], start = 0
ChunkInit ==
    /\ HandlerIdle
    /\ ScrapeIdle
    /\ DocsIdle
    /\ ck_text \in Texts
    /\ ck_size \in 1..MaxChunk
    /\ ck_overlap \in 0..MaxChunk
    /\ ck_pc = "loop"
    /\ ck_start = 0
    /\ ck_chunks = <<>>
    /\ ck_iters = 0

\* end = min(start + chunk_size, len(text))
ChunkEnd(start, text, chunk_size) == Min(start + chunk_size, Len(text))

\* one pass through the body of the while loop
chunk_text_iterate ==
    /\ ck_pc = "loop"
    /\ ck_start < Len(ck_text)
    /\ ck_iters < MaxIters
    /\ LET end == ChunkEnd(ck_start, ck_text, ck_size)
       IN  /\ ck_chunks' = Append(ck_chunks, PySlice(ck_text, ck_start, end))
           /\ ck_start' = end - ck_overlap
    /\ ck_iters' = ck_iters + 1
    /\ UNCHANGED <<ck_pc, ck_text, ck_size, ck_overlap>>
    /\ UNCHANGED <<hvars, scvars, pdvars>>

\* the loop condition fails and chunk_text returns chunks
chunk_text_return ==
    /\ ck_pc = "loop"
    /\ ~(ck_start < Len(ck_text))
    /\ ck_pc' = "returned"
    /\ UNCHANGED <<ck_text, ck_size, ck_overlap, ck_start, ck_chunks, ck_iters>>
    /\ UNCHANGED <<hvars, scvars, pdvars>>

ChunkNext ==
    \/ chunk_text_iterate
    \/ chunk_text_return

ChunkSpec == ChunkInit /\ [][ChunkNext]_vars

-----------------------------------------------------------------------------
(* scrape_async: content extraction *)

\* the selectors tried for the main content, in the order of the code
ContentSelectors ==
    <<"article", "main", "[role=\"main\"]", ".content", "#content", ".post", ".entry">>

\* the selectors of the regions removed before the whole page is used
BoilerplateSelectors ==
    {"nav", "header", "footer", "aside", ".sidebar", "#sidebar", ".menu", ".ad",
     ".advertisement"}

\* s repeated n times
RECURSIVE Repeat(_, _)
Repeat(s, n) ==
    IF n = 0 THEN ""
    ELSE LET h == Repeat(s, n \div 2)
         IN  IF n % 2 = 0 THEN h \o h ELSE h \o h \o s

\* str.strip(), for the blanks of the model's texts
RECURSIVE Strip(_)
Strip(s) ==
    IF s = "" THEN ""
    ELSE IF SubSeq(s, 1, 1) = " " THEN Strip(SubSeq(s, 2, Len(s)))
    ELSE IF SubSeq(s, Len(s), Len(s)) = " " THEN Strip(SubSeq(s, 1, Len(s) - 1))
    ELSE s

\* a text longer than the cap on main_content
LongText == Repeat("x", MaxContent + 1)

\* the elements of a document: the selector an element matches ("p": none of
\* the lists) and its text; a text names its selector, is blank, or is long
Elements ==
    { [sel |-> t, text |-> " <" \o t \o "> "] : t \in {"article", "main", "nav", "p"} }
        \cup { [sel |-> t, text |-> "  "] : t \in {"article", "main", "nav", "p"} }
        \cup { [sel |-> t, text |-> LongText] : t \in {"article", "p"} }

\* the parsed documents: the lists of at most MaxElems elements
Pages == UNION { [1..n -> Elements] : n \in 0..MaxElems }

\* soup.select(tag): the elements that match, in document order
Select(page, tag) == SelectSeq(page, LAMBDA el : el.sel = tag)

\* " ".join([elem.get_text(strip=True) for elem in content])
JoinedText(content) == Join(" ", [i \in DOMAIN content |-> Strip(content[i].text)])

\* the loop over the selectors from the k-th on: the first selector with a
\* match gives main_content, and the loop is left
RECURSIVE SelectFrom(_, _)
SelectFrom(page, k) ==
    IF k > Len(ContentSelectors) THEN [tag |-> "", main |-> ""]
    ELSE IF Select(page, ContentSelectors[k]) # <<>>
         THEN [tag |-> ContentSelectors[k],
               main |-> JoinedText(Select(page, ContentSelectors[k]))]
         ELSE SelectFrom(page, k + 1)

\* variant of SelectMain: the loop is not left at the first match, so the
\* last selector with a match gives main_content
RECURSIVE SelectLastFrom(_, _, _)
SelectLastFrom(page, k, found) ==
    IF k > Len(ContentSelectors) THEN found
    ELSE IF Select(page, ContentSelectors[k]) # <<>>
         THEN SelectLastFrom(page, k + 1,
                  [tag |-> ContentSelectors[k],
                   main |-> JoinedText(Select(page, ContentSelectors[k]))])
         ELSE SelectLastFrom(page, k + 1, found)
SelectMainLastWins(page) == SelectLastFrom(page, 1, [tag |-> "", main |-> ""])

\* the loop over the selectors
SelectMain(page) == SelectFrom(page, 1)

\* the elements left after elem.decompose() on every boilerplate match
Decomposed(page) == SelectSeq(page, LAMBDA el : el.sel \notin BoilerplateSelectors)

\* soup.get_text(strip=True): the stripped texts, joined without separator
GetText(page) == Join("", [i \in DOMAIN page |-> Strip(page[i].text)])

\* scrape_async(url) is entered and the page is fetched and parsed
ScrapeInit ==
    /\ HandlerIdle
    /\ ChunkIdle
    /\ DocsIdle
    /\ sc_pc = "parsed"
    /\ sc_page \in Pages
    /\ sc_tag = "" /\ sc_main = "" /\ sc_fellback = FALSE
    /\ sc_error = <<>> /\ sc_value = <<>>

\* the loop over the content selectors
scrape_async_select ==
    /\ sc_pc = "parsed"
    /\ sc_tag' = SelectMain(sc_page).tag
    /\ sc_main' = SelectMain(sc_page).main
    /\ sc_pc' = "selected"
    /\ UNCHANGED <<sc_page, sc_fellback, sc_error, sc_value>>
    /\ UNCHANGED <<hvars, ckvars, pdvars>>

\* `if not main_content`: the boilerplate is removed and the text of the
\* whole page is taken
scrape_async_fallback ==
    /\ sc_pc = "selected"
    /\ sc_main = ""
    /\ sc_page' = Decomposed(sc_page)
    /\ sc_main' = GetText(Decomposed(sc_page))
    /\ sc_fellback' = TRUE
    /\ sc_pc' = "extracted"
    /\ UNCHANGED <<sc_tag, sc_error, sc_value>>
    /\ UNCHANGED <<hvars, ckvars, pdvars>>

\* return main_content[:1500]
scrape_async_return ==
    /\ IF sc_pc = "selected" THEN sc_main # "" ELSE sc_pc = "extracted"
    /\ sc_value' = <<ScrapeValue(sc_main)>>
    /\ sc_pc' = "returned"
    /\ UNCHANGED <<sc_page, sc_tag, sc_main, sc_fellback, sc_error>>
    /\ UNCHANGED <<hvars, ckvars, pdvars>>

\* an exception while extracting is caught and the sentinel is returned
scrape_async_except ==
    /\ sc_pc \in {"parsed", "selected", "extracted"}
    /\ \E e \in ScrapeErrors :
           /\ sc_error' = <<e>>
           /\ sc_value' = <<ScrapeErrorValue(e)>>
    /\ sc_pc' = "returned"
    /\ UNCHANGED <<sc_page, sc_tag, sc_main, sc_fellback>>
    /\ UNCHANGED <<hvars, ckvars, pdvars>>

ScrapeNext ==
    \/ scrape_async_select
    \/ scrape_async_fallback
    \/ scrape_async_return
    \/ scrape_async_except

ScrapeSpec == ScrapeInit /\ [][ScrapeNext]_vars

-----------------------------------------------------------------------------
(* summarize_content and process_documents *)

\* the documents handed to process_documents: a fetch error, an empty text,
\* a short text, and a text longer than one chunk
LongDocument == Repeat("y", DefaultChunkSize + 1)
Documents == {"[Scraping Error] timed out", "", "abc", LongDocument}
Contents == UNION { [1..n -> Documents] : n \in 0..MaxDocs }

\* the texts handed to summarize_content: empty, short, and longer than the
\* truncation of the fallback
LongChunk == Repeat("z", SummaryFallbackLen + 1)
SummaryTexts == {"", "abc", LongChunk}

\* what the completion call of a summary ends in: a chat response or a failure
SummaryOutcomes ==
    { [ok |-> TRUE, chat_response |-> r] : r \in MistralResults }
        \cup { [ok |-> FALSE, e |-> e] : e \in ApiFailures }

\* summarize_content: the prompt and the completion call it makes
summary_prompt(text) ==
    "Summarize this text while preserving key facts:\n" \o text
SummaryCall(text) ==
    [prompt |-> summary_prompt(text), max_tokens |-> SummaryMaxTokens]

\* summarize_content: the except clause returns text[:500]
SummaryFallback(text) == Prefix(text, SummaryFallbackLen)

\* summarize_content(text), given what its completion call ends in:
\* call_mistral_api raises HTTPException for any failure, and the except
\* clause of summarize_content catches it
summarize_content(text, outcome) ==
    IF outcome.ok THEN call_mistral_api(outcome.chat_response)
    ELSE SummaryFallback(text)

\* process_documents(content) is entered, or summarize_content(text) is
\* called on its own
DocsInit ==
    /\ HandlerIdle
    /\ ScrapeIdle
    /\ ChunkIdle
    /\ pd_chunked = <<>> /\ pd_summarized = <<>> /\ pd_result = <<>>
    /\ pd_processed = <<>>
    /\ sm_calls = <<>> /\ sm_caught = <<>> /\ sm_result = <<>>
    /\ \/ /\ pd_pc = "for"
          /\ pd_content \in Contents
          /\ pd_i = 1
          /\ sm_pc = "idle" /\ sm_text = ""
       \/ /\ pd_pc = "idle" /\ pd_content = <<>> /\ pd_i = 0
          /\ sm_pc = "called"
          /\ sm_text \in SummaryTexts

\* summarize_content called on its own: one completion call, whose failure
\* is caught and answered by the truncation
summarize_content_returns ==
    /\ sm_pc = "called"
    /\ \E outcome \in SummaryOutcomes :
           /\ sm_caught' = IF outcome.ok THEN <<>> ELSE <<MistralError(outcome.e)>>
           /\ sm_result' = <<summarize_content(sm_text, outcome)>>
    /\ sm_calls' = Append(sm_calls, SummaryCall(sm_text))
    /\ sm_pc' = "returned"
    /\ UNCHANGED <<pd_pc, pd_content, pd_i, pd_processed, pd_chunked,
                   pd_summarized, pd_result, sm_text>>
    /\ UNCHANGED <<hvars, ckvars, scvars>>

\* for text in content: a text that starts with the sentinel is skipped
process_documents_skip ==
    /\ pd_pc = "for"
    /\ pd_i <= Len(pd_content)
    /\ StartsWith(pd_content[pd_i], "[Scraping Error]")
    /\ pd_i' = pd_i + 1
    /\ UNCHANGED <<pd_pc, pd_content, pd_processed, pd_chunked, pd_summarized,
                   pd_result, sm_pc, sm_text, sm_calls, sm_caught, sm_result>>
    /\ UNCHANGED <<hvars, ckvars, scvars>>

\* chunks = chunk_text(text): chunk_text is entered with its defaults
process_documents_chunk ==
    /\ pd_pc = "for"
    /\ pd_i <= Len(pd_content)
    /\ ~StartsWith(pd_content[pd_i], "[Scraping Error]")
    /\ pd_pc' = "chunking"
    /\ pd_chunked' = Append(pd_chunked, pd_content[pd_i])
    /\ ck_pc' = "loop"
    /\ ck_text' = pd_content[pd_i]
    /\ ck_size' = DefaultChunkSize
    /\ ck_overlap' = DefaultOverlap
    /\ ck_start' = 0
    /\ ck_chunks' = <<>>
    /\ ck_iters' = 0
    /\ UNCHANGED <<pd_content, pd_i, pd_processed, pd_summarized, pd_result,
                   sm_pc, sm_text, sm_calls, sm_caught, sm_result>>
    /\ UNCHANGED <<hvars, scvars>>

\* chunk_text has returned: summaries = [summarize_content(chunk) for chunk
\* in chunks], processed.append(" ".join(summaries))
process_documents_summarize ==
    /\ pd_pc = "chunking"
    /\ ck_pc = "returned"
    /\ \E outcomes \in [DOMAIN ck_chunks -> SummaryOutcomes] :
           LET summaries == [k \in DOMAIN ck_chunks |->
                                 summarize_content(ck_chunks[k], outcomes[k])]
           IN  pd_processed' = Append(pd_processed, Join(" ", summaries))
    /\ pd_summarized' = pd_summarized \o ck_chunks
    /\ pd_i' = pd_i + 1
    /\ pd_pc' = "for"
    /\ UNCHANGED <<pd_content, pd_chunked, pd_result,
                   sm_pc, sm_text, sm_calls, sm_caught, sm_result>>
    /\ UNCHANGED <<hvars, ckvars, scvars>>

\* the for loop is over: return "\n\n".join(processed)
process_documents_return ==
    /\ pd_pc = "for"
    /\ pd_i > Len(pd_content)
    /\ pd_result' = <<Join("\n\n", pd_processed)>>
    /\ pd_pc' = "returned"
    /\ UNCHANGED <<pd_content, pd_i, pd_processed, pd_chunked, pd_summarized,
                   sm_pc, sm_text, sm_calls, sm_caught, sm_result>>
    /\ UNCHANGED <<hvars, ckvars, scvars>>

DocsNext ==
    \/ summarize_content_returns
    \/ process_documents_skip
    \/ process_documents_chunk
    \/ chunk_text_iterate
    \/ chunk_text_return
    \/ process_documents_summarize
    \/ process_documents_return

DocsSpec == DocsInit /\ [][DocsNext]_vars

-----------------------------------------------------------------------------
(* Properties *)

\* the provider a fallback from p goes to
Other(p) == IF p = "gemini" THEN "mistral" ELSE "gemini"

\* the credential of provider p is configured
Credential(p) == IF p = "gemini" THEN GEMINI_API_KEY # "" ELSE MISTRAL_API_KEY # ""

\* the handler has returned a response dict
Returned == response # <<>>

\* t is the sentinel of a failed fetch
IsScrapeError(t) == StartsWith(t, "[Scraping Error]")

\* C1: when the requested provider has no credential, the alternate has one
\* and the search returned at least one URL, the `provider` of the returned
\* response is the alternate provider.
C1_ResponseProviderIsAlternate ==
    (Returned /\ links # <<>> /\ ~Credential(provider) /\ Credential(Other(provider)))
        => response[1]["provider"] = Other(provider)

\* C2: a request without `content` ends in an HTTP 400 with a descriptive
\* message, and no search, fetch or completion call is made for it.
C2_MissingContentIs400 ==
    (pc = "done" /\ "content" \notin DOMAIN request)
        => /\ raised # <<>>
           /\ raised[1].status_code = 400
           /\ raised[1].detail # ""
           /\ search_calls = <<>> /\ tasks = <<>> /\ api_calls = <<>>

\* C3: a request that carries `content` never raises, whatever the search,
\* the fetches, the credentials and the completion call do; once the handler
\* is done it has returned a dict of type "response".
C3_ContentRequestsReturnResponse ==
    ("content" \in DOMAIN request)
        => /\ raised = <<>>
           /\ (pc = "done" => Returned /\ response[1]["type"] = "response")

\* C3 witness: a returned request in which a fetch failed, the requested
\* provider had no credential and the completion call failed
C3_Witness ==
    /\ pc = "done" /\ Returned
    /\ \E i \in DOMAIN tasks : IsScrapeError(tasks[i].value)
    /\ ~Credential(provider)
    /\ Len(api_calls) = 1
    /\ response[1]["content"] =
           "I found some information but couldn't generate a response. "
               \o "Error: 500: 429 Too Many Requests"

\* C4: for 0 <= overlap < chunk_size the loop of chunk_text runs a number of
\* times bounded by the text (every pass moves the cursor forward, so at most
\* len(text) passes), and so terminates.
C4_ChunkTextTerminates ==
    (0 <= ck_overlap /\ ck_overlap < ck_size) => ck_iters <= Len(ck_text)

\* C5: the context embedded in the prompt passed to the provider is the join
\* of the texts that do not begin with the `[Scraping Error]` prefix.
C5_ErrorTextsExcludedFromPrompt ==
    \A k \in DOMAIN api_calls :
        api_calls[k].prompt =
            "Answer the question: " \o query \o "\n\nHere is the information found:\n"
                \o Join("\n\n", SelectSeq(contents, LAMBDA t : ~IsScrapeError(t)))

\* C6: every completion call goes to a provider whose credential is present:
\* to the requested provider when it has one, otherwise to the alternate; and
\* when the requested provider has none and the alternate has one, the call
\* to the alternate is issued once the fetches are gathered.
C6_CompletionCallTarget ==
    /\ \A k \in DOMAIN api_calls :
           /\ Credential(api_calls[k].provider)
           /\ api_calls[k].provider =
                  (IF Credential(provider) THEN provider ELSE Other(provider))
    /\ (pc \in {"complete", "done"} /\ contents # <<>>
            /\ ~Credential(provider) /\ Credential(Other(provider)))
           => /\ Len(api_calls) = 1
              /\ api_calls[1].provider = Other(provider)

\* C6 witness: a finished request whose call went to the alternate provider
C6_Witness ==
    /\ pc = "done"
    /\ ~Credential(provider) /\ Credential(Other(provider))
    /\ Len(api_calls) = 1
    /\ api_calls[1].provider = Other(provider)

\* C7: with no credential for either provider, every request with content
\* returns a response whose content is the no-provider answer, whatever the
\* search returned.
C7_NoProviderAnswer ==
    (pc = "done" /\ "content" \in DOMAIN request
        /\ GEMINI_API_KEY = "" /\ MISTRAL_API_KEY = "")
        => /\ Returned
           /\ response[1]["content"] =
                  "Unable to generate response: No valid API keys found for any provider."

\* C8: the number of fetch tasks launched and the length of `sources` are at
\* most 5, and both equal min(number of URLs returned, 5).
C8_FanOutBound ==
    /\ Len(tasks) <= 5
    /\ pc \in {"gather", "complete", "done"} /\ "content" \in DOMAIN request
           => Len(tasks) = Min(Len(links), 5)
    /\ Returned
           => /\ Len(response[1]["sources"]) <= 5
              /\ Len(response[1]["sources"]) = Min(Len(links), 5)

\* C8 witness: a response to a search that returned more than 5 URLs
C8_Witness ==
    /\ Returned
    /\ Len(links) > 5
    /\ Len(tasks) = 5
    /\ Len(response[1]["sources"]) = 5

\* C9: `sources` is the first min(n, 5) URLs of the search result in search
\* order, whatever the outcome of each fetch.
C9_SourcesAreFirstLinks ==
    Returned => response[1]["sources"] = SubSeq(links, 1, Min(Len(links), 5))

\* C9 witness: a response that lists the URL of a failed fetch next to the
\* URL of a successful one
C9_Witness ==
    /\ Returned
    /\ \E i, j \in DOMAIN tasks :
           /\ IsScrapeError(tasks[i].value)
           /\ ~IsScrapeError(tasks[j].value)
           /\ tasks[i].url # tasks[j].url
           /\ response[1]["sources"][i] = tasks[i].url
           /\ response[1]["sources"][j] = tasks[j].url

\* C10: every response to a request with a non-empty query has a non-empty
\* `content`.
C10_ContentNonEmpty ==
    (Returned /\ request["content"] # "") => response[1]["content"] # ""


\* C11: when the search returns no URLs, also because the search failed, the
\* response is {type "response", content "I couldn't find relevant information
\* about '<query>'.", sources []} and no fetch task and no completion call is
\* made.
C11_NoLinksResponse ==
    /\ (pc = "done" /\ search_error # <<>>) => (Returned /\ links = <<>>)
    /\ (Returned /\ links = <<>>)
           => /\ response[1]["type"] = "response"
              /\ response[1]["content"] =
                     "I couldn't find relevant information about '"
                         \o request["content"] \o "'."
              /\ response[1]["sources"] = <<>>
              /\ tasks = <<>>
              /\ api_calls = <<>>

\* C11 witness: the response to a request whose search failed
C11_Witness ==
    /\ Returned
    /\ search_error # <<>>
    /\ response[1]["content"] =
           "I couldn't find relevant information about 'capital of France'."

\* C13: in a request where no provider has a credential, the search is never
\* called and no fetch task is launched, and the handler returns the
\* no-provider answer.
C13_ResolutionBeforeSearch ==
    (GEMINI_API_KEY = "" /\ MISTRAL_API_KEY = "" /\ "content" \in DOMAIN request)
        => /\ search_calls = <<>>
           /\ tasks = <<>>
           /\ pc = "done" => (Returned /\ response[1]["content"] = NoKeysAnswer)

\* a step of a fetch task leaves the stage open and its siblings as they were
FetchStepKeepsSiblings ==
    (pc = "gather" /\ tasks' # tasks)
        => /\ pc' = "gather"
           /\ DOMAIN tasks' = DOMAIN tasks
           /\ \A j \in DOMAIN tasks :
                  (tasks[j].done \/ ~tasks'[j].done) => tasks'[j] = tasks[j]

\* C14: answer generation starts only after every launched fetch task has
\* finished with a value; a fetch task that fails neither cancels a pending
\* sibling nor ends the stage, and the sibling's result is still collected.
C14_GatherWaitsForAll ==
    /\ [](pc = "gather" => (prompt = "" /\ api_calls = <<>> /\ response = <<>>))
    /\ []((pc \in {"complete", "done"} /\ tasks # <<>>)
              => /\ Len(contents) = Len(tasks)
                 /\ \A i \in DOMAIN tasks :
                        tasks[i].done /\ contents[i] = tasks[i].value)
    /\ [][FetchStepKeepsSiblings]_vars

\* C14 witness: the task that finished first failed, and the text of a
\* sibling that was pending then is among the collected contents
C14_Witness ==
    /\ pc \in {"complete", "done"}
    /\ first_done \in DOMAIN tasks
    /\ IsScrapeError(tasks[first_done].value)
    /\ \E j \in DOMAIN tasks :
           /\ j # first_done
           /\ contents[j] # ""
           /\ ~IsScrapeError(contents[j])

\* C15: a request whose `content` is the empty string is rejected with a
\* client error and causes no search, fetch or completion call.
C15_EmptyContentRejected ==
    (pc # "start" /\ "content" \in DOMAIN request /\ request["content"] = "")
        => /\ raised # <<>>
           /\ raised[1].status_code = 400
           /\ search_calls = <<>> /\ tasks = <<>> /\ api_calls = <<>>

\* C16: every response carries a `provider` naming one supported provider,
\* unless its content is the no-provider answer; the handler never ends
\* without a response or an exception.
C16_ResponseNamesProvider ==
    /\ pc = "done" => (Returned \/ raised # <<>>)
    /\ (Returned /\ response[1]["content"] # NoKeysAnswer)
           => /\ "provider" \in DOMAIN response[1]
              /\ response[1]["provider"] \in {"gemini", "mistral"}

\* C16 witness: the response to a request that named an unsupported provider
C16_Witness ==
    /\ Returned
    /\ "provider" \in DOMAIN request
    /\ request["provider"] = "openai"
    /\ response[1]["content"] = "Paris."
    /\ response[1]["provider"] = "gemini"

\* the provider the handler is to settle on for the identifiers of the model
ExpectedProvider(req) ==
    IF "provider" \notin DOMAIN req THEN "gemini"
    ELSE IF req["provider"] \in {"gemini", "GEMINI", "Gemini"} THEN "gemini"
    ELSE IF req["provider"] \in {"mistral", "MISTRAL", "Mistral"} THEN "mistral"
    ELSE "gemini"

\* C19: the provider of a request is the requested identifier, compared
\* case-insensitively, when it is supported, and gemini when the field is
\* absent or unsupported; an unrecognized provider never fails the request.
C19_RequestedProviderDefault ==
    (pc # "start" /\ "content" \in DOMAIN request)
        => /\ raised = <<>>
           /\ provider = ExpectedProvider(request)
           /\ Returned => response[1]["provider"] = ExpectedProvider(request)

\* C19 witness: a request naming "Mistral" is answered as mistral
C19_Witness ==
    /\ Returned
    /\ "provider" \in DOMAIN request
    /\ request["provider"] = "Mistral"
    /\ provider = "mistral"


\* chunk_text was called with 0 <= overlap < chunk_size
ValidChunkArgs == 0 <= ck_overlap /\ ck_overlap < ck_size

\* c[n:] for n >= 0
DropFirst(c, n) == SubSeq(c, Min(n, Len(c)) + 1, Len(c))

\* the first chunk followed by every later chunk without its first `overlap`
\* characters
RECURSIVE RejoinTail(_, _)
RejoinTail(chunks, overlap) ==
    IF chunks = <<>> THEN ""
    ELSE DropFirst(Head(chunks), overlap) \o RejoinTail(Tail(chunks), overlap)
Rejoin(chunks, overlap) ==
    IF chunks = <<>> THEN "" ELSE Head(chunks) \o RejoinTail(Tail(chunks), overlap)

\* the windows appended so far reach the end of the text
ChunksCoverText == ck_chunks # <<>> /\ ck_start + ck_overlap = Len(ck_text)

\* C12: for overlap < chunk_size, chunk_text returns the windows once they
\* reach the end of the text, and the first chunk followed by the later
\* chunks without their first `overlap` characters is the original text.
C12_ChunkRoundTrip ==
    ValidChunkArgs
        => /\ ChunksCoverText => ~(ck_start < Len(ck_text))
           /\ ck_pc = "returned" => Rejoin(ck_chunks, ck_overlap) = ck_text

\* the windows appended so far rejoin to the part of the text they span
WindowsRejoinToSpan ==
    (ValidChunkArgs /\ ck_chunks # <<>>)
        => Rejoin(ck_chunks, ck_overlap) = Prefix(ck_text, ck_start + ck_overlap)


\* the position in the preference list of the first selector that matches an
\* element of the page (0: no selector matches)
FirstMatch(page) ==
    LET ks == { k \in DOMAIN ContentSelectors :
                    \E i \in DOMAIN page : page[i].sel = ContentSelectors[k] }
    IN  IF ks = {} THEN 0 ELSE CHOOSE k \in ks : \A m \in ks : k <= m

\* the stripped texts of the matches of the k-th selector, joined by spaces
MatchText(page, k) ==
    IF k = 0 THEN "" ELSE JoinedText(Select(page, ContentSelectors[k]))

\* the text of the page without its boilerplate elements
PageText(page) ==
    GetText(SelectSeq(page, LAMBDA el : el.sel \notin BoilerplateSelectors))

\* scrape_async has returned an extracted text
Extracted == sc_pc = "returned" /\ sc_error = <<>>

\* C17 (as claimed): the extraction returns the text of the first selector
\* that matches an element, and falls back to the text of the whole page
\* without boilerplate if and only if no selector matches any element.
C17_FallbackIffNoMatch ==
    Extracted
        => LET k == FirstMatch(sc_page)
           IN  /\ sc_fellback <=> (k = 0)
               /\ k # 0 => sc_value[1] = Prefix(MatchText(sc_page, k), 1500)
               /\ k = 0 => sc_value[1] = Prefix(PageText(sc_page), 1500)

\* C17 (amended): the extraction returns the text of the first selector that
\* matches an element, never that of a later selector, unless that text is
\* empty; it falls back to the text of the whole page without boilerplate if
\* and only if no selector matches or the first matching selector's text is
\* empty.
C17_FallbackIffNoMainContent ==
    Extracted
        => LET k == FirstMatch(sc_page)
           IN  /\ sc_fellback <=> (k = 0 \/ MatchText(sc_page, k) = "")
               /\ ~sc_fellback
                      => /\ sc_tag = ContentSelectors[k]
                         /\ sc_value[1] = Prefix(MatchText(sc_page, k), 1500)
               /\ sc_fellback => sc_value[1] = Prefix(PageText(sc_page), 1500)

\* C17 witness: a page where `main` comes before `article` in the document,
\* both with text: the text of `article`, first in the list, is returned
C17_Witness ==
    /\ Extracted
    /\ ~sc_fellback
    /\ Len(sc_page) = 2
    /\ sc_page[1] = [sel |-> "main", text |-> " <main> "]
    /\ sc_page[2] = [sel |-> "article", text |-> " <article> "]
    /\ sc_value = <<"<article>">>

\* C18 (as claimed): every value a fetch task returns is non-blank: extracted
\* text of 1 to 1500 characters, or a string starting with `[Scraping Error]`.
C18_ValueNonBlank ==
    sc_pc = "returned"
        => \/ StartsWith(sc_value[1], "[Scraping Error]")
           \/ (Strip(sc_value[1]) # "" /\ Len(sc_value[1]) <= 1500)

\* C18 (amended): a fetch task always returns a string: after a failure a
\* non-blank string starting with `[Scraping Error]`, otherwise the first 1500
\* characters of the extracted text, which may be empty.
C18_ValueIsTextOrSentinel ==
    sc_pc = "returned"
        => /\ Len(sc_value) = 1
           /\ IF sc_error # <<>>
              THEN /\ StartsWith(sc_value[1], "[Scraping Error]")
                   /\ Strip(sc_value[1]) # ""
              ELSE /\ Len(sc_value[1]) <= 1500
                   /\ sc_value[1] = SubSeq(sc_main, 1, Len(sc_value[1]))
                   /\ Len(sc_main) <= 1500 => sc_value[1] = sc_main

\* C18 witness: an extracted text longer than 1500 characters is returned cut
C18_Witness ==
    /\ Extracted
    /\ Len(sc_main) > 1500
    /\ Len(sc_value[1]) = 1500

\* summarize_content returns a text whatever its completion call ends in:
\* the truncation text[:500] when the call failed
SummarizeNeverPropagates ==
    sm_pc = "returned"
        => /\ Len(sm_result) = 1
           /\ Len(sm_calls) = 1
           /\ sm_caught # <<>>
                  => sm_result[1] = SubSeq(sm_text, 1, Min(500, Len(sm_text)))

\* no text that starts with the sentinel reaches chunk_text or
\* summarize_content
ErrorTextsSkipped ==
    /\ \A k \in DOMAIN pd_chunked : ~StartsWith(pd_chunked[k], "[Scraping Error]")
    /\ \A k \in DOMAIN pd_summarized :
           ~StartsWith(pd_summarized[k], "[Scraping Error]")

\* the documents of content that are not fetch errors, in order
NonErrorDocuments ==
    SelectSeq(pd_content, LAMBDA text : ~StartsWith(text, "[Scraping Error]"))

\* what process_documents returns has one part for every non-error document
ReturnedDocumentsContribute ==
    pd_pc = "returned"
        => /\ pd_chunked = NonErrorDocuments
           /\ Len(pd_processed) = Len(NonErrorDocuments)
           /\ pd_result = <<Join("\n\n", pd_processed)>>

\* the chunking of a document ends: its loop makes at most one pass for
\* every character of the text
ChunkingOfDocumentEnds ==
    pd_pc = "chunking" => ck_iters <= Len(ck_text)

\* C20: summarize_content never propagates a failure of its completion call
\* and returns the first 500 characters of the chunk instead; process_documents
\* passes no text starting with `[Scraping Error]` to chunking or
\* summarization; and every non-error document gets chunked and contributes
\* the space-joined summaries of its chunks.
C20_NonErrorDocumentsContribute ==
    /\ SummarizeNeverPropagates
    /\ ErrorTextsSkipped
    /\ ChunkingOfDocumentEnds
    /\ ReturnedDocumentsContribute

\* the fetch stage is over and generate_answer has built its prompt
PromptBuilt == pc \in {"complete", "done"} /\ tasks # <<>>

\* C21: one fetch is launched for every link of links[:5], duplicates
\* included, the i-th for the i-th link; the text a fetch extracts is that of
\* its own URL; and the i-th text of contents, and of the context joined into
\* the prompt, is the value of the i-th fetch, whichever fetch finished first.
C21_ContextInLinkOrder ==
    /\ tasks # <<>>
           => /\ Len(tasks) = (IF Len(links) < 5 THEN Len(links) ELSE 5)
              /\ \A i \in DOMAIN tasks :
                     /\ tasks[i].url = links[i]
                     /\ (tasks[i].done /\ ~IsScrapeError(tasks[i].value)
                             /\ tasks[i].value # "")
                            => tasks[i].value =
                                   "Paris is the capital of France. -- " \o links[i]
    /\ PromptBuilt
           => /\ Len(contents) = Len(tasks)
              /\ \A i \in DOMAIN tasks : contents[i] = tasks[i].value
              /\ prompt = "Answer the question: " \o query
                              \o "\n\nHere is the information found:\n"
                              \o Join("\n\n", [i \in DOMAIN tasks |-> tasks[i].value])
              /\ response # <<>>
                     => \A i \in DOMAIN tasks : response[1]["sources"][i] = tasks[i].url

\* C21 witness: the same URL twice in the search result, fetched twice with
\* two outcomes; the second fetch finished first, and the response still
\* lists the texts and the sources in the order of the links
C21_Witness ==
    /\ Returned
    /\ links = <<"https://a.example", "https://a.example">>
    /\ first_done = 2
    /\ contents = <<"Paris is the capital of France. -- https://a.example",
                    "[Scraping Error] timed out">>
    /\ response[1]["sources"] = links

\* C22: under fairness every request with content eventually gets a
\* response returned, also when some or all of its fetches failed.
C22_ContentRequestsEventuallyReturn ==
    [](("content" \in DOMAIN request) => <>(pc = "done" /\ response # <<>>))

\* C22 witness: a response returned after a fetch stage in which every one of
\* the five fetches failed
C22_Witness ==
    /\ pc = "done"
    /\ response # <<>>
    /\ Len(tasks) = 5
    /\ \A i \in DOMAIN tasks : tasks[i].value = "[Scraping Error] timed out"

=============================================================================
